---- MODULE Spec2Model ----
(***************************************************************************)
(* TNKB client (src/tnkb/client.py): plate normalisation and validation,   *)
(* the remote lookup with local fallback, bulk checking and construction.  *)
(*                                                                         *)
(* A Python str is a sequence of pieces.  Strings the code inspects         *)
(* (plates, region codes) have one character per piece; Text(x) is a       *)
(* string the code only passes around, kept as one piece.  Registry names  *)
(* and exception messages are TLA+ strings.                                *)
(***************************************************************************)
EXTENDS Integers, Sequences, FiniteSets, TLC

\* ------------------------------------------------------------------------
\* Bounds of the model
\* ------------------------------------------------------------------------
\* longest enumerated raw plate string
MaxLen == 4
\* longest enumerated list handed to bulk_check
MaxBulk == 2

\* ------------------------------------------------------------------------
\* Characters and str methods
\* ------------------------------------------------------------------------
UpperLetters == <<"A", "B", "C", "D", "E", "F", "G", "H", "I", "J", "K", "L", "M",
                  "N", "O", "P", "Q", "R", "S", "T", "U", "V", "W", "X", "Y", "Z">>
LowerLetters == <<"a", "b", "c", "d", "e", "f", "g", "h", "i", "j", "k", "l", "m",
                  "n", "o", "p", "q", "r", "s", "t", "u", "v", "w", "x", "y", "z">>

\* a string whose characters the code never looks at
Text(x) == <<x>>

\* [A-Z]
IsUpperAZ(c) == \E i \in 1..26 : UpperLetters[i] = c
\* \d
IsDigit(c) == c \in {"0", "1", "2", "3", "4", "5", "6", "7", "8", "9"}
\* \s, and the separators of str.split(): the ASCII whitespace
IsSpace(c) == c \in {" ", "\t", "\n", "\r", "\f"}

\* str.upper(), one character
UpperChar(c) ==
    IF \E i \in 1..26 : LowerLetters[i] = c
    THEN UpperLetters[CHOOSE i \in 1..26 : LowerLetters[i] = c]
    ELSE c

\* str.upper()
upper(s) == [i \in 1..Len(s) |-> UpperChar(s[i])]

\* str.split() with no argument: the maximal runs of non-whitespace
RECURSIVE split(_)
split(s) ==
    IF s = <<>> THEN <<>>
    ELSE IF IsSpace(s[1]) THEN split(Tail(s))
    ELSE LET n == IF \E i \in 1..Len(s) : IsSpace(s[i])
                  THEN (CHOOSE i \in 1..Len(s) :
                           /\ IsSpace(s[i])
                           /\ \A j \in 1..(i - 1) : ~IsSpace(s[j])) - 1
                  ELSE Len(s)
         IN  <<SubSeq(s, 1, n)>> \o split(SubSeq(s, n + 1, Len(s)))

\* ' '.join(words)
RECURSIVE join(_)
join(words) ==
    IF words = <<>> THEN <<>>
    ELSE IF Len(words) = 1 THEN words[1]
    ELSE words[1] \o <<" ">> \o join(Tail(words))

\* ------------------------------------------------------------------------
\* models.py: the region registry
\* ------------------------------------------------------------------------
RegionRows ==
    {
       [code |-> <<"A">>, name |-> "DKI Jakarta", province |-> "Jakarta"],
       [code |-> <<"B">>, name |-> "Jawa Barat", province |-> "West Java"],
       [code |-> <<"C">>, name |-> "Jawa Tengah", province |-> "Central Java"],
       [code |-> <<"D">>, name |-> "Bandung", province |-> "West Java"],
       [code |-> <<"E">>, name |-> "Pekalongan", province |-> "Central Java"],
       [code |-> <<"F">>, name |-> "Purwokerto", province |-> "Central Java"],
       [code |-> <<"G">>, name |-> "Yogyakarta", province |-> "Yogyakarta"],
       [code |-> <<"H">>, name |-> "Surabaya", province |-> "East Java"],
       [code |-> <<"K">>, name |-> "Semarang", province |-> "Central Java"],
       [code |-> <<"L">>, name |-> "Surabaya", province |-> "East Java"],
       [code |-> <<"M">>, name |-> "Madura", province |-> "East Java"],
       [code |-> <<"N">>, name |-> "Malang", province |-> "East Java"],
       [code |-> <<"P">>, name |-> "Banyumas", province |-> "Central Java"],
       [code |-> <<"R">>, name |-> "Pati", province |-> "Central Java"],
       [code |-> <<"S">>, name |-> "Karanganyar", province |-> "Central Java"],
       [code |-> <<"T">>, name |-> "Sidoarjo", province |-> "East Java"],
       [code |-> <<"U">>, name |-> "Tegal", province |-> "Central Java"],
       [code |-> <<"W">>, name |-> "Mataram", province |-> "West Nusa Tenggara"],
       [code |-> <<"A", "A">>, name |-> "Medan", province |-> "North Sumatra"],
       [code |-> <<"A", "B">>, name |-> "Padang", province |-> "West Sumatra"],
       [code |-> <<"A", "D">>, name |-> "Aceh", province |-> "Aceh"],
       [code |-> <<"A", "E">>, name |-> "Pekanbaru", province |-> "Riau"],
       [code |-> <<"A", "G">>, name |-> "Jambi", province |-> "Jambi"],
       [code |-> <<"B", "A">>, name |-> "Bengkulu", province |-> "Bengkulu"],
       [code |-> <<"B", "B">>, name |-> "Lampung", province |-> "Lampung"],
       [code |-> <<"B", "C">>, name |-> "Palembang", province |-> "South Sumatra"],
       [code |-> <<"B", "D">>, name |-> "Pangkal Pinang", province |-> "Bangka Belitung"],
       [code |-> <<"B", "E">>, name |-> "Bandar Lampung", province |-> "Lampung"],
       [code |-> <<"B", "K">>, name |-> "Batam", province |-> "Riau Islands"],
       [code |-> <<"B", "M">>, name |-> "Banjarmasin", province |-> "South Kalimantan"],
       [code |-> <<"B", "N">>, name |-> "Balikpapan", province |-> "East Kalimantan"],
       [code |-> <<"B", "P">>, name |-> "Pontianak", province |-> "West Kalimantan"],
       [code |-> <<"B", "R">>, name |-> "Samarinda", province |-> "East Kalimantan"],
       [code |-> <<"B", "S">>, name |-> "Palangka Raya", province |-> "Central Kalimantan"],
       [code |-> <<"B", "T">>, name |-> "Banjarmasin", province |-> "South Kalimantan"],
       [code |-> <<"C", "C">>, name |-> "Manado", province |-> "North Sulawesi"],
       [code |-> <<"C", "D">>, name |-> "Gorontalo", province |-> "Gorontalo"],
       [code |-> <<"C", "T">>, name |-> "Palu", province |-> "Central Sulawesi"],
       [code |-> <<"D", "A">>, name |-> "Makassar", province |-> "South Sulawesi"],
       [code |-> <<"D", "B">>, name |-> "Pare-Pare", province |-> "South Sulawesi"],
       [code |-> <<"D", "C">>, name |-> "Kendari", province |-> "Southeast Sulawesi"],
       [code |-> <<"D", "D">>, name |-> "Baubau", province |-> "Southeast Sulawesi"],
       [code |-> <<"D", "E">>, name |-> "Ambon", province |-> "Maluku"],
       [code |-> <<"E", "B">>, name |-> "Manado", province |-> "North Sulawesi"],
       [code |-> <<"E", "D">>, name |-> "Denpasar", province |-> "Bali"],
       [code |-> <<"E", "E">>, name |-> "Mataram", province |-> "West Nusa Tenggara"],
       [code |-> <<"E", "F">>, name |-> "Kupang", province |-> "East Nusa Tenggara"],
       [code |-> <<"K", "B">>, name |-> "Jayapura", province |-> "Papua"],
       [code |-> <<"P", "A">>, name |-> "Pontianak", province |-> "West Kalimantan"]
    }

\* REGION_CODES: code -> {name, province}
REGION_CODES == [c \in {r.code : r \in RegionRows} |->
                    CHOOSE r \in RegionRows : r.code = c]

\* REGION_CODES.get(region_code, {}).get('name', default)
RegionName(region_code, default) ==
    IF region_code \in DOMAIN REGION_CODES
    THEN REGION_CODES[region_code].name
    ELSE default

\* ------------------------------------------------------------------------
\* exceptions.py: the exception classes, and the builtins the code can raise
\* ------------------------------------------------------------------------
\* class -> its base class
ExceptionBase ==
    [TNKBError         |-> "Exception",
     InvalidPlateError |-> "TNKBError",
     APIError          |-> "TNKBError",
     NetworkError      |-> "APIError",
     TimeoutError      |-> "APIError",
     ValidationError   |-> "TNKBError",
     AttributeError    |-> "Exception",
     NameError         |-> "Exception",
     Exception         |-> "Exception"]

\* isinstance(e, cls) for an exception of class kind: what `except cls` catches
RECURSIVE IsInstance(_, _)
IsInstance(kind, cls) ==
    \/ kind = cls
    \/ /\ kind # "Exception"
       /\ IsInstance(ExceptionBase[kind], cls)

\* the outcome of a call: a returned value, or a raised exception
\* (exc is the class, msg is str(e))
Return(v) == [exc |-> "", msg |-> [text |-> "", arg |-> <<>>], val |-> v]
Raise(kind, text, arg) == [exc |-> kind, msg |-> [text |-> text, arg |-> arg], val |-> <<>>]
Raised(r) == r.exc # ""

\* ------------------------------------------------------------------------
\* client.py: PLATE_PATTERN  ^([A-Z]{1,2})\s?(\d{1,4})\s?([A-Z]{1,3})$
\* ------------------------------------------------------------------------
\* every position of s in lo..hi satisfies the character class
AllUpperAZ(s, lo, hi) == \A i \in lo..hi : IsUpperAZ(s[i])
AllDigits(s, lo, hi) == \A i \in lo..hi : IsDigit(s[i])

\* PatternMatches without the `$`: a match may stop before the end of s
PatternMatchesUnanchored(s) ==
    { m \in (1..2) \X (0..1) \X (1..4) \X (0..1) \X (1..3) :
        LET a   == m[1]
            w1  == m[2]
            d   == m[3]
            w2  == m[4]
            l   == m[5]
            end == a + w1 + d + w2 + l
        IN  /\ end <= Len(s)
            /\ AllUpperAZ(s, 1, a)
            /\ w1 = 1 => IsSpace(s[a + 1])
            /\ AllDigits(s, a + w1 + 1, a + w1 + d)
            /\ w2 = 1 => IsSpace(s[a + w1 + d + 1])
            /\ AllUpperAZ(s, a + w1 + d + w2 + 1, end) }

\* The ways the pattern matches s: <<a, w1, d, w2, l>> are the lengths of
\* group 1, the first \s?, group 2, the second \s? and group 3.  `$` matches
\* at the end of the string and also just before one trailing newline.
PatternMatches(s) ==
    { m \in (1..2) \X (0..1) \X (1..4) \X (0..1) \X (1..3) :
        LET a   == m[1]
            w1  == m[2]
            d   == m[3]
            w2  == m[4]
            l   == m[5]
            end == a + w1 + d + w2 + l
        IN  /\ \/ end = Len(s)
               \/ end + 1 = Len(s) /\ s[Len(s)] = "\n"
            /\ AllUpperAZ(s, 1, a)
            /\ w1 = 1 => IsSpace(s[a + 1])
            /\ AllDigits(s, a + w1 + 1, a + w1 + d)
            /\ w2 = 1 => IsSpace(s[a + w1 + d + 1])
            /\ AllUpperAZ(s, a + w1 + d + w2 + 1, end) }

\* PLATE_PATTERN.match(s) is not None
PLATE_PATTERN_match(s) == PatternMatches(s) # {}

\* match.groups(): (region_code, digits, letters)
PLATE_PATTERN_groups(s) ==
    LET m == CHOOSE x \in PatternMatches(s) : TRUE
        a == m[1]
        b == a + m[2]
        c == b + m[3]
        e == c + m[4]
    IN  [region_code |-> SubSeq(s, 1, a),
         digits      |-> SubSeq(s, b + 1, c),
         letters     |-> SubSeq(s, e + 1, e + m[5])]

\* ------------------------------------------------------------------------
\* client.py: the private validation methods
\* ------------------------------------------------------------------------
\* _validate_plate_format: returns None or raises InvalidPlateError
_validate_plate_format(plate_number) ==
    IF ~PLATE_PATTERN_match(plate_number)
    THEN Raise("InvalidPlateError", "Invalid plate format", plate_number)
    ELSE Return(<<>>)

\* Collapse without the .upper()
CollapseNoUpper(plate_number) == join(split(plate_number))

\* ' '.join(plate_number.upper().split())
Collapse(plate_number) == join(split(upper(plate_number)))

\* _normalize_plate: returns the normalized string or raises InvalidPlateError
_normalize_plate(plate_number) ==
    IF plate_number = <<>>
    THEN Raise("InvalidPlateError", "Plate number cannot be empty", <<>>)
    ELSE LET normalized == Collapse(plate_number)
             v == _validate_plate_format(normalized)
         IN  IF Raised(v) THEN v ELSE Return(normalized)

\* _parse_plate: returns (region_code, digits, letters) or raises
_parse_plate(plate_number) ==
    IF ~PLATE_PATTERN_match(plate_number)
    THEN Raise("InvalidPlateError", "Cannot parse plate", plate_number)
    ELSE Return(PLATE_PATTERN_groups(plate_number))

\* ------------------------------------------------------------------------
\* JSON values of a response body, tagged with their type.  The value of an
\* object is a TLA+ record (key -> JSON value).
\* ------------------------------------------------------------------------
JNull == [t |-> "null"]
JArray == [t |-> "array"]
JBool(x) == [t |-> "bool", b |-> x]
JStr(x) == [t |-> "str", s |-> x]
JObj(r) == [t |-> "object", o |-> r]
\* {}
EmptyDict == [k \in {} |-> JNull]

\* bool(j)
Truthy(j) ==
    CASE j.t = "null"   -> FALSE
      [] j.t = "bool"   -> j.b
      [] j.t = "str"    -> j.s # <<>>
      [] j.t = "object" -> DOMAIN j.o # {}
      [] j.t = "array"  -> TRUE

\* dict.get(key, default); the caller has checked that j is an object
Get(j, key, default) == IF key \in DOMAIN j.o THEN j.o[key] ELSE default

\* ------------------------------------------------------------------------
\* What one request to the gateway can do (the remote side is not code of
\* the client): session.get raises, raise_for_status raises, json() raises,
\* or json() returns a body.
\* ------------------------------------------------------------------------
\* requests exception class -> its base classes
RequestsBases ==
    [Timeout          |-> {"RequestException"},
     ReadTimeout      |-> {"Timeout"},
     ConnectionError  |-> {"RequestException"},
     ConnectTimeout   |-> {"ConnectionError", "Timeout"},
     HTTPError        |-> {"RequestException"},
     RetryError       |-> {"RequestException"},
     TooManyRedirects |-> {"RequestException"},
     ValueError       |-> {},
     RequestException |-> {}]

RECURSIVE RequestsIsInstance(_, _)
RequestsIsInstance(kind, cls) ==
    \/ kind = cls
    \/ \E b \in RequestsBases[kind] : RequestsIsInstance(b, cls)

\* the data objects the gateway can answer with
Payloads ==
    { rc @@ vt :
        rc \in { EmptyDict,
                 [region_code |-> JStr(<<"B">>)],
                 [region_code |-> JStr(<<"b">>)],
                 [region_code |-> JStr(<<"Z", "Z">>)],
                 [region_code |-> JStr(<<>>)],
                 [region_code |-> JNull] },
        vt \in { EmptyDict,
                 [vehicle_type |-> JStr(Text("Motorcycle"))],
                 [vehicle_type |-> JNull] } }

\* the parsed bodies response.json() can return
Bodies ==
    {JNull, JArray}
    \cup {JObj(EmptyDict)}
    \cup {JObj([success |-> JBool(FALSE)]),
          JObj([success |-> JBool(FALSE), message |-> JStr(Text("Plate not found"))])}
    \cup {JObj([success |-> JBool(TRUE), data |-> JNull]),
          JObj([success |-> JBool(TRUE), data |-> JStr(Text("ok"))])}
    \cup {JObj([success |-> JBool(TRUE)] @@ p) : p \in Payloads}
    \cup {JObj([success |-> JBool(TRUE), data |-> JObj(p)]) : p \in Payloads}

\* a request's outcome: the exception the transport raises ("" when none)
\* and the parsed body when there is none
RemoteOutcomes ==
    { [raises |-> e, body |-> JNull] :
        e \in {"ReadTimeout", "ConnectTimeout", "ConnectionError", "HTTPError",
               "RetryError", "TooManyRedirects", "ValueError"} }
    \cup { [raises |-> "", body |-> b] : b \in Bodies }

\* the outcomes to draw from for a check_plate whose lines 105-109 gave v:
\* when they raised, no request is sent and the gateway has nothing to answer
OutcomesFor(v) ==
    IF v.exc # "" THEN {[raises |-> "", body |-> JNull]} ELSE RemoteOutcomes

\* ------------------------------------------------------------------------
\* client.py: _call_api
\* ------------------------------------------------------------------------
\* the body of the try block, given the outcome of the request
CallApiTry(outcome) ==
    LET data == outcome.body
    IN  IF outcome.raises # "" THEN Raise(outcome.raises, "", <<>>)
        ELSE IF data.t # "object"
             THEN Raise("AttributeError", "object has no attribute 'get'", <<>>)
        ELSE IF ~Truthy(Get(data, "success", JNull))
             THEN Raise("APIError", "API error", Get(data, "message", JStr(Text("Unknown error"))))
        ELSE Return(Get(data, "data", data))

\* _call_api: the try block followed by the except clauses, in order
_call_api(outcome) ==
    LET r == CallApiTry(outcome)
    IN  IF r.exc \in DOMAIN RequestsBases
        THEN IF RequestsIsInstance(r.exc, "Timeout")
             THEN Raise("TimeoutError", "API request timeout", <<>>)
             ELSE IF RequestsIsInstance(r.exc, "ConnectionError")
             THEN Raise("NetworkError", "Network connection error", <<>>)
             ELSE IF RequestsIsInstance(r.exc, "RequestException")
             THEN Raise("APIError", "API request failed", <<>>)
             ELSE Raise("APIError", "Invalid API response", <<>>)
        ELSE r

\* ------------------------------------------------------------------------
\* client.py: building the VehicleInfo (models.py) of a plate
\* ------------------------------------------------------------------------
VehicleInfo(plate_number, region_code, region_name, vehicle_type, is_valid, details) ==
    [plate_number |-> plate_number,
     region_code  |-> region_code,
     region_name  |-> region_name,
     vehicle_type |-> vehicle_type,
     is_valid     |-> is_valid,
     details      |-> details]

\* _build_vehicle_info without the .upper() of the region code
_build_vehicle_info_no_upper(api_response, plate_number) ==
    IF api_response.t # "object"
    THEN Raise("AttributeError", "object has no attribute 'get'", <<>>)
    ELSE LET rc == Get(api_response, "region_code", JStr(<<>>))
         IN  IF rc.t # "str"
             THEN Raise("AttributeError", "object has no attribute 'upper'", <<>>)
             ELSE Return(VehicleInfo(plate_number,
                                     rc.s,
                                     RegionName(rc.s, "Unknown"),
                                     Get(api_response, "vehicle_type", JStr(Text("Unknown"))),
                                     TRUE,
                                     api_response))

\* _build_vehicle_info: from the API response; .get on a non-dict and
\* .upper() on a non-str raise AttributeError
_build_vehicle_info(api_response, plate_number) ==
    IF api_response.t # "object"
    THEN Raise("AttributeError", "object has no attribute 'get'", <<>>)
    ELSE LET rc == Get(api_response, "region_code", JStr(<<>>))
         IN  IF rc.t # "str"
             THEN Raise("AttributeError", "object has no attribute 'upper'", <<>>)
             ELSE LET region_code == upper(rc.s)
                  IN  Return(VehicleInfo(plate_number,
                                         region_code,
                                         RegionName(region_code, "Unknown"),
                                         Get(api_response, "vehicle_type", JStr(Text("Unknown"))),
                                         TRUE,
                                         api_response))

\* _parse_locally with the default region name of _build_vehicle_info
_parse_locally_unknown(plate_number, region_code0, digits) ==
    LET region_code == upper(region_code0)
    IN  VehicleInfo(plate_number,
                    region_code,
                    RegionName(region_code, "Unknown"),
                    JStr(Text("Car")),
                    TRUE,
                    JObj([source      |-> JStr(Text("local_parsing")),
                          region_code |-> JStr(region_code),
                          digits      |-> JStr(digits),
                          note        |-> JStr(Text("Parsed locally without API"))]))

\* _parse_locally: when the API is unavailable
_parse_locally(plate_number, region_code0, digits) ==
    LET region_code == upper(region_code0)
    IN  VehicleInfo(plate_number,
                    region_code,
                    RegionName(region_code, "Unknown Region"),
                    JStr(Text("Car")),
                    TRUE,
                    JObj([source      |-> JStr(Text("local_parsing")),
                          region_code |-> JStr(region_code),
                          digits      |-> JStr(digits),
                          note        |-> JStr(Text("Parsed locally without API"))]))

\* _create_invalid_vehicle: the placeholder of a plate that failed
_create_invalid_vehicle(plate, error) ==
    VehicleInfo(plate, <<>>, "Unknown", JStr(Text("Unknown")), FALSE,
                JObj([error |-> error]))

\* ------------------------------------------------------------------------
\* client.py: the public methods, given what each request to the gateway does
\* ------------------------------------------------------------------------
\* check_plate, lines 105-109: the normalized plate and its components,
\* or the InvalidPlateError of _normalize_plate or _parse_plate
NormalizeAndParse(plate_number) ==
    LET n == _normalize_plate(plate_number)
    IN  IF Raised(n) THEN n
        ELSE LET p == _parse_plate(n.val)
             IN  IF Raised(p) THEN p
                 ELSE Return([normalized_plate |-> n.val,
                              region_code      |-> p.val.region_code,
                              digits           |-> p.val.digits,
                              letters          |-> p.val.letters])

\* check_plate, lines 111-121: the API call, with the fallback to local
\* parsing when the try block raises an APIError
TryApi(parsed, outcome) ==
    LET response == _call_api(outcome)
        t == IF Raised(response) THEN response
             ELSE _build_vehicle_info(response.val, parsed.normalized_plate)
    IN  IF Raised(t) /\ IsInstance(t.exc, "APIError")
        THEN Return(_parse_locally(parsed.normalized_plate, parsed.region_code, parsed.digits))
        ELSE t

\* the request check_plate sends, with what the gateway does with it
Request(parsed, outcome) ==
    [endpoint |-> "check", nopol |-> parsed.normalized_plate, outcome |-> outcome]

\* CheckPlateFrom that sends the request before it looks at the validation
CheckPlateFromEager(v, outcome) ==
    IF Raised(v)
    THEN [ret |-> v,
          requests |-> <<[endpoint |-> "check", nopol |-> <<>>, outcome |-> outcome]>>]
    ELSE [ret |-> TryApi(v.val, outcome), requests |-> <<Request(v.val, outcome)>>]

\* check_plate once the plate went through lines 105-109 with result v:
\* what it returns or raises, and the requests it has sent
CheckPlateFrom(v, outcome) ==
    IF Raised(v) THEN [ret |-> v, requests |-> <<>>]
    ELSE [ret |-> TryApi(v.val, outcome), requests |-> <<Request(v.val, outcome)>>]

\* check_plate(plate_number): what it returns or raises, and the requests it
\* has sent, when the gateway answers the request with outcome
check_plate(plate_number, outcome) ==
    CheckPlateFrom(NormalizeAndParse(plate_number), outcome)

\* validate_plate
validate_plate(plate_number) ==
    LET v == _validate_plate_format(plate_number)
    IN  IF Raised(v) /\ IsInstance(v.exc, "InvalidPlateError")
        THEN Return(FALSE)
        ELSE IF Raised(v) THEN v ELSE Return(TRUE)

\* BulkLoop that logs a failed item and appends nothing for it
RECURSIVE BulkLoopSkip(_, _, _, _, _)
BulkLoopSkip(plate_numbers, outcomes, i, results, requests) ==
    IF i > Len(plate_numbers) THEN [ret |-> Return(results), requests |-> requests]
    ELSE LET plate == plate_numbers[i]
             call == check_plate(plate, outcomes[i])
             c == call.ret
             sent == requests \o call.requests
         IN  IF ~Raised(c)
             THEN BulkLoopSkip(plate_numbers, outcomes, i + 1, Append(results, c.val), sent)
             ELSE IF IsInstance(c.exc, "TNKBError")
             THEN BulkLoopSkip(plate_numbers, outcomes, i + 1, results, sent)
             ELSE [ret |-> c, requests |-> sent]

\* bulk_check, from item i on with the results and the requests so far; an
\* exception that is not a TNKBError leaves the loop
RECURSIVE BulkLoop(_, _, _, _, _)
BulkLoop(plate_numbers, outcomes, i, results, requests) ==
    IF i > Len(plate_numbers) THEN [ret |-> Return(results), requests |-> requests]
    ELSE LET plate == plate_numbers[i]
             call == check_plate(plate, outcomes[i])
             c == call.ret
             sent == requests \o call.requests
         IN  IF ~Raised(c)
             THEN BulkLoop(plate_numbers, outcomes, i + 1, Append(results, c.val), sent)
             ELSE IF IsInstance(c.exc, "TNKBError")
             THEN BulkLoop(plate_numbers, outcomes, i + 1,
                           Append(results, _create_invalid_vehicle(plate, c.msg)), sent)
             ELSE [ret |-> c, requests |-> sent]

bulk_check(plate_numbers, outcomes) == BulkLoop(plate_numbers, outcomes, 1, <<>>, <<>>)

\* ------------------------------------------------------------------------
\* client.py: __init__
\* ------------------------------------------------------------------------
PyNone == [t |-> "none"]
PyStr(x) == [t |-> "str", s |-> x]

\* the names __init__ can read: its parameters and the module's globals
InitParameters == {"self", "timeout", "max_retries", "verify_ssl", "rapidapi_key"}
ModuleGlobals ==
    {"re", "logging", "Optional", "Dict", "Any", "List", "quote", "requests",
     "HTTPAdapter", "Retry", "TNKBError", "InvalidPlateError", "APIError",
     "NetworkError", "TNKBTimeoutError", "ValidationError", "VehicleInfo",
     "REGION_CODES", "logger", "TNKBClient"}

DefaultHeaders == {"User-Agent", "Content-Type", "X-RapidAPI-Host"}

\* __init__: the attributes it has set on self when it returns or raises
__init__(cfg) ==
    LET self1 == [timeout |-> cfg.timeout, verify_ssl |-> cfg.verify_ssl]
    IN  IF "api_key" \notin InitParameters \cup ModuleGlobals
        THEN [ret |-> Raise("NameError", "name 'api_key' is not defined", <<>>),
              self |-> self1]
        ELSE LET self2 == self1 @@ [api_key |-> PyNone,
                                    session |-> [retries |-> cfg.max_retries,
                                                 headers |-> DefaultHeaders]]
             IN  IF "rapidapi_key" \notin DOMAIN self2
                 THEN [ret |-> Raise("AttributeError",
                                     "object has no attribute 'rapidapi_key'", <<>>),
                       self |-> self2]
                 ELSE [ret |-> Return(<<>>),
                       self |-> [self2 EXCEPT !.session.headers =
                                    IF self2.rapidapi_key.t = "str" /\ self2.rapidapi_key.s # <<>>
                                    THEN @ \cup {"X-RapidAPI-Key"}
                                    ELSE @]]

\* ------------------------------------------------------------------------
\* The inputs
\* ------------------------------------------------------------------------
\* characters of the enumerated raw strings: an uppercase and a lowercase
\* letter, a digit, two kinds of whitespace and a character no plate has
Alphabet == {"B", "b", "1", " ", "\n", "-"}

StringsUpTo(n) == UNION {[1..k -> Alphabet] : k \in 0..n}

\* the plates of the examples (src/examples/python_basic.py) and variants
ScenarioPlates ==
    {
       <<"B", " ", "1", "2", "3", "4", " ", "A", "B", "C">>,
       <<"A", " ", "1", "2", "3", " ", "D", "E", "F">>,
       <<"A", "B", " ", "5", " ", "C", "D", "E">>,
       <<"I", "N", "V", "A", "L", "I", "D">>,
       <<"X", "Y", "Z">>,
       <<"1", "2", "3", "4", "5">>,
       <<"A", "B", "C">>,
       <<"b", "1", "2", "3", "4", "a", "b", "c">>,
       <<" ", " ", "b", " ", " ", "1", "2", "3", "4", "\n", "a", "b", "c", " ">>,
       <<"Z", "Z", " ", "1", " ", "A">>,
       <<"B", " ", "1", "2", "3", "4", "5", " ", "A", "B", "C">>,
       <<"B", " ", "1", "2", "3", "4", " ", "A", "B", "C", "D">>,
       <<"A", "B", "C", " ", "1", " ", "A">>,
       <<"B", "1", "2", "3", "4", "A", "B", "C", "\n">>
    }

\* the plates the enumerated bulk lists are made of
BulkPlates ==
    {
       <<"B", " ", "1", "2", "3", "4", " ", "A", "B", "C">>,
       <<"a", "b", "5", "c", "d", "e">>,
       <<"I", "N", "V", "A", "L", "I", "D">>,
       <<>>
    }

BulkLists == UNION {[1..k -> BulkPlates] : k \in 0..MaxBulk}

\* the argument lists: one plate for check_plate and validate_plate, a list
\* for bulk_check
Inputs == {<<p>> : p \in StringsUpTo(MaxLen) \cup ScenarioPlates} \cup BulkLists

\* the constructor arguments
Configs ==
    [timeout : {1, 10, 30}, max_retries : 0..3, verify_ssl : BOOLEAN,
     rapidapi_key : {PyNone, PyStr(<<>>), PyStr(Text("key"))}]

DefaultConfig ==
    [timeout |-> 10, max_retries |-> 3, verify_ssl |-> TRUE, rapidapi_key |-> PyNone]

\* the outcomes the items of a bulk_check draw from
BulkOutcomes ==
    { o \in RemoteOutcomes :
        \/ o.raises \in {"ReadTimeout", "HTTPError"}
        \/ o.raises = "" /\ o.body \in
              {JArray,
               JObj([success |-> JBool(FALSE)]),
               JObj([success |-> JBool(TRUE), data |-> JNull]),
               JObj([success |-> JBool(TRUE), data |-> JObj(EmptyDict)]),
               JObj([success |-> JBool(TRUE),
                     data |-> JObj([region_code |-> JStr(<<"b">>)])])} }

\* ------------------------------------------------------------------------
\* The state machine.  The methods keep no state between calls, so a
\* behaviour is one call on the arguments drawn at the start.  Spec is a call
\* of a method, for a receiver that owns a session (all the methods read
\* from self); SpecConstruct is a call of the constructor.
\* ------------------------------------------------------------------------
VARIABLES
    plate_numbers,   \* the argument list of the call
    config,          \* the arguments of the constructor call
    client,          \* the attributes __init__ has set on the object
    pc,              \* "ready", then "done"
    op,              \* the method that was called, "none" before
    ret,             \* what the call returned or raised
    requests         \* the requests sent to the gateway, with their outcomes

vars == <<plate_numbers, config, client, pc, op, ret, requests>>

Init ==
    /\ plate_numbers \in Inputs
    /\ config = DefaultConfig
    /\ client = EmptyDict
    /\ pc = "ready"
    /\ op = "none"
    /\ ret = Return(<<>>)
    /\ requests = <<>>

\* before TNKBClient(...) is called
InitConstruct ==
    /\ plate_numbers = <<>>
    /\ config \in Configs
    /\ client = EmptyDict
    /\ pc = "new"
    /\ op = "none"
    /\ ret = Return(<<>>)
    /\ requests = <<>>

\* TNKBClient(timeout, max_retries, verify_ssl, rapidapi_key)
Construct ==
    /\ pc = "new"
    /\ client' = __init__(config).self
    /\ ret' = __init__(config).ret
    /\ pc' = "done"
    /\ op' = "__init__"
    /\ UNCHANGED <<plate_numbers, config, requests>>

\* client.check_plate(plate_numbers[1])
CheckPlate ==
    /\ pc = "ready"
    /\ Len(plate_numbers) = 1
    /\ LET v == NormalizeAndParse(plate_numbers[1])
       IN  \E outcome \in OutcomesFor(v) :
              /\ ret' = CheckPlateFrom(v, outcome).ret
              /\ requests' = CheckPlateFrom(v, outcome).requests
    /\ pc' = "done"
    /\ op' = "check_plate"
    /\ UNCHANGED <<plate_numbers, config, client>>

\* client.validate_plate(plate_numbers[1])
ValidatePlate ==
    /\ pc = "ready"
    /\ Len(plate_numbers) = 1
    /\ ret' = validate_plate(plate_numbers[1])
    /\ pc' = "done"
    /\ op' = "validate_plate"
    /\ UNCHANGED <<plate_numbers, config, client, requests>>

\* client.bulk_check(plate_numbers)
BulkCheck ==
    /\ pc = "ready"
    /\ \E outcomes \in [1..Len(plate_numbers) -> BulkOutcomes] :
          /\ ret' = bulk_check(plate_numbers, outcomes).ret
          /\ requests' = bulk_check(plate_numbers, outcomes).requests
    /\ pc' = "done"
    /\ op' = "bulk_check"
    /\ UNCHANGED <<plate_numbers, config, client>>

Next == CheckPlate \/ ValidatePlate \/ BulkCheck

Spec == Init /\ [][Next]_vars

NextConstruct == Construct

SpecConstruct == InitConstruct /\ [][NextConstruct]_vars

\* before client._call_api(endpoint, {'nopol': plate_numbers[1]}) is called
InitGateway ==
    /\ plate_numbers \in {<<p>> : p \in ScenarioPlates}
    /\ config = DefaultConfig
    /\ client = EmptyDict
    /\ pc = "ready"
    /\ op = "none"
    /\ ret = Return(<<>>)
    /\ requests = <<>>

\* client._call_api(CHECK_KENDARAAN_ENDPOINT, {'nopol': plate_numbers[1]})
CallApi ==
    /\ pc = "ready"
    /\ \E outcome \in RemoteOutcomes :
          /\ ret' = _call_api(outcome)
          /\ requests' = <<[endpoint |-> "check", nopol |-> plate_numbers[1],
                            outcome |-> outcome]>>
    /\ pc' = "done"
    /\ op' = "_call_api"
    /\ UNCHANGED <<plate_numbers, config, client>>

NextGateway == CallApi

SpecGateway == InitGateway /\ [][NextGateway]_vars

\* ------------------------------------------------------------------------
\* Vocabulary of the properties
\* ------------------------------------------------------------------------
Done(method) == pc = "done" /\ op = method

\* the plate handed to check_plate or validate_plate
plate == plate_numbers[1]

\* The canonical pattern as the specification words it: one or two letters,
\* optional space, one to four digits, optional space, one to three letters,
\* the whole string
Canonical(s) ==
    \E a \in 1..2, w1 \in 0..1, d \in 1..4, w2 \in 0..1, l \in 1..3 :
        /\ Len(s) = a + w1 + d + w2 + l
        /\ \A i \in 1..a : IsUpperAZ(s[i])
        /\ w1 = 1 => s[a + 1] = " "
        /\ \A i \in (a + w1 + 1)..(a + w1 + d) : IsDigit(s[i])
        /\ w2 = 1 => s[a + w1 + d + 1] = " "
        /\ \A i \in (a + w1 + d + w2 + 1)..Len(s) : IsUpperAZ(s[i])

\* the raw string is a plate: its normalized form matches the canonical pattern
FormatValid(raw) == Canonical(Collapse(raw))

\* the leading letters of a normalized plate
Prefix(s) ==
    LET n == IF \E i \in 1..Len(s) : ~IsUpperAZ(s[i])
             THEN (CHOOSE i \in 1..Len(s) :
                      ~IsUpperAZ(s[i]) /\ \A j \in 1..(i - 1) : IsUpperAZ(s[j])) - 1
             ELSE Len(s)
    IN  SubSeq(s, 1, n)

\* the request failed in one of the ways of the gateway's contract: timeout,
\* no connection, other transport failure, non-success status, malformed
\* body, or a body without a true success flag
GatewayFails(outcome) ==
    \/ outcome.raises # ""
    \/ /\ outcome.body.t = "object"
       /\ \/ "success" \notin DOMAIN outcome.body.o
          \/ outcome.body.o.success = JBool(FALSE)

\* the request succeeded with a data object whose region code, when it has
\* one, is a string
GatewaySucceeds(outcome) ==
    /\ outcome.raises = ""
    /\ outcome.body.t = "object"
    /\ "success" \in DOMAIN outcome.body.o
    /\ outcome.body.o.success = JBool(TRUE)
    /\ LET payload == IF "data" \in DOMAIN outcome.body.o
                      THEN outcome.body.o.data ELSE outcome.body
       IN  /\ payload.t = "object"
           /\ "region_code" \in DOMAIN payload.o => payload.o.region_code.t = "str"

\* the data object of a successful request
PayloadOf(outcome) ==
    IF "data" \in DOMAIN outcome.body.o THEN outcome.body.o.data ELSE outcome.body

\* the placeholder of a failed item is as bulk_check documents it
IsPlaceholder(info, raw) ==
    /\ info.is_valid = FALSE
    /\ info.plate_number = raw
    /\ info.region_code = <<>>
    /\ info.region_name = "Unknown"
    /\ info.vehicle_type = JStr(Text("Unknown"))
    /\ info.details.t = "object"
    /\ DOMAIN info.details.o = {"error"}
    /\ info.details.o.error.text # ""

P_B_1234_ABC == <<"B", " ", "1", "2", "3", "4", " ", "A", "B", "C">>
P_b1234abc == <<"b", "1", "2", "3", "4", "a", "b", "c">>
P_B1234ABC == <<"B", "1", "2", "3", "4", "A", "B", "C">>
P_ZZ_1_A == <<"Z", "Z", " ", "1", " ", "A">>
P_INVALID == <<"I", "N", "V", "A", "L", "I", "D">>
P_ab5cde == <<"a", "b", "5", "c", "d", "e">>

\* ------------------------------------------------------------------------
\* C1: check_plate either returns a VehicleInfo or raises InvalidPlateError,
\* whatever the gateway does, and it returns for every format-valid plate.
\* ------------------------------------------------------------------------
C1_OnlyInvalidPlate ==
    Done("check_plate") =>
        /\ ret.exc \in {"", "InvalidPlateError"}
        /\ FormatValid(plate) => ret.exc = ""

\* ------------------------------------------------------------------------
\* C2: bulk_check always returns, and every item whose check_plate fails has
\* the placeholder VehicleInfo at its position.
\* ------------------------------------------------------------------------
C2_BulkNeverFails ==
    Done("bulk_check") =>
        /\ ret.exc = ""
        /\ Len(ret.val) = Len(plate_numbers)
        /\ \A i \in 1..Len(plate_numbers) :
              ~FormatValid(plate_numbers[i]) => IsPlaceholder(ret.val[i], plate_numbers[i])

\* ------------------------------------------------------------------------
\* C3: the list bulk_check returns has one output per input, in input order:
\* output i is valid exactly when input i is a plate, a valid output carries
\* the normalized form of input i and an invalid one carries input i.
\* ------------------------------------------------------------------------
C3_BulkOrder ==
    (Done("bulk_check") /\ ret.exc = "") =>
        /\ Len(ret.val) = Len(plate_numbers)
        /\ \A i \in 1..Len(plate_numbers) :
              /\ ret.val[i].is_valid = FormatValid(plate_numbers[i])
              /\ ret.val[i].is_valid => ret.val[i].plate_number = Collapse(plate_numbers[i])
              /\ ~ret.val[i].is_valid => ret.val[i].plate_number = plate_numbers[i]

\* bulk_check returned for an invalid item followed by a plate that
\* normalization changes
C3_Witness ==
    /\ Done("bulk_check")
    /\ ret.exc = ""
    /\ plate_numbers = <<P_INVALID, P_ab5cde>>
    /\ ~ret.val[1].is_valid
    /\ ret.val[2].is_valid
    /\ ret.val[2].plate_number # plate_numbers[2]

\* ------------------------------------------------------------------------
\* C4: validate_plate returns true exactly when normalize and parse succeed
\* on the raw string, and never raises.
\* ------------------------------------------------------------------------
C4_ValidateIffNormalizes ==
    Done("validate_plate") =>
        /\ ret.exc = ""
        /\ ret.val = ~Raised(NormalizeAndParse(plate))

\* ------------------------------------------------------------------------
\* C5: for a string whose normalized form does not match the canonical
\* pattern, validate_plate returns false and check_plate raises
\* InvalidPlateError.
\* ------------------------------------------------------------------------
C5_RejectsNonCanonical ==
    (pc = "done" /\ Len(plate_numbers) = 1 /\ ~FormatValid(plate)) =>
        /\ op = "validate_plate" => ret = Return(FALSE)
        /\ op = "check_plate" => ret.exc = "InvalidPlateError"

\* check_plate rejected a plate followed by an extraneous character
C5_Witness ==
    /\ Done("check_plate")
    /\ plate = <<"B", "1", "B", "-">>
    /\ ret.exc = "InvalidPlateError"
    /\ requests = <<>>

C7_RemoteSuccess ==
    (Done("check_plate") /\ requests # <<>> /\ GatewaySucceeds(requests[1].outcome)) =>
        LET payload == PayloadOf(requests[1].outcome)
            code == IF "region_code" \in DOMAIN payload.o
                    THEN upper(payload.o.region_code.s) ELSE <<>>
        IN  /\ ret.exc = ""
            /\ ret.val.is_valid
            /\ ret.val.plate_number = Collapse(plate)
            /\ ret.val.region_code = code
            /\ ret.val.region_name =
                  IF \E r \in RegionRows : r.code = code
                  THEN (CHOOSE r \in RegionRows : r.code = code).name
                  ELSE "Unknown"
            /\ ret.val.vehicle_type =
                  IF "vehicle_type" \in DOMAIN payload.o
                  THEN payload.o.vehicle_type ELSE JStr(Text("Unknown"))
            /\ ret.val.details = payload

\* the lookup succeeded with a lowercase region code and no vehicle type
C7_Witness ==
    /\ Done("check_plate")
    /\ requests # <<>>
    /\ GatewaySucceeds(requests[1].outcome)
    /\ PayloadOf(requests[1].outcome) = JObj([region_code |-> JStr(<<"b">>)])
    /\ ret.exc = ""
    /\ ret.val.region_code = <<"B">>
    /\ ret.val.vehicle_type = JStr(Text("Unknown"))

\* ------------------------------------------------------------------------
\* C8: every VehicleInfo check_plate or bulk_check produces has an uppercase
\* or empty region code, and an empty one only when it is not valid.
\* ------------------------------------------------------------------------
RegionCodeOk(info) ==
    /\ upper(info.region_code) = info.region_code
    /\ info.region_code = <<>> => ~info.is_valid

C8_RegionCodeInvariant ==
    /\ (Done("check_plate") /\ ret.exc = "") => RegionCodeOk(ret.val)
    /\ (Done("bulk_check") /\ ret.exc = "") =>
          \A i \in 1..Len(ret.val) : RegionCodeOk(ret.val[i])

\* ------------------------------------------------------------------------
\* C9: check_plate("b1234abc") is accepted and gives region code "B" and
\* region name "Jawa Barat" when the gateway fails or returns region code
\* "B"; the original statement has plateNumber "B 1234 ABC", the amended one
\* has plateNumber "B1234ABC" (no space is inserted).
\* ------------------------------------------------------------------------
FailsOrReturnsB(outcome) ==
    \/ GatewayFails(outcome)
    \/ /\ GatewaySucceeds(outcome)
       /\ "region_code" \in DOMAIN PayloadOf(outcome).o
       /\ PayloadOf(outcome).o.region_code = JStr(<<"B">>)

C9_Original ==
    (Done("check_plate") /\ plate = P_b1234abc) =>
        /\ ret.exc # "InvalidPlateError"
        /\ requests # <<>>
        /\ FailsOrReturnsB(requests[1].outcome) =>
              /\ ret.exc = ""
              /\ ret.val.is_valid
              /\ ret.val.plate_number = P_B_1234_ABC
              /\ ret.val.region_code = <<"B">>
              /\ ret.val.region_name = "Jawa Barat"

C9_Amended ==
    (Done("check_plate") /\ plate = P_b1234abc) =>
        /\ ret.exc # "InvalidPlateError"
        /\ requests # <<>>
        /\ FailsOrReturnsB(requests[1].outcome) =>
              /\ ret.exc = ""
              /\ ret.val.is_valid
              /\ ret.val.plate_number = P_B1234ABC
              /\ ret.val.region_code = <<"B">>
              /\ ret.val.region_name = "Jawa Barat"

\* check_plate("b1234abc") returned after the gateway answered region code "B"
C9_Witness ==
    /\ Done("check_plate")
    /\ plate = P_b1234abc
    /\ requests # <<>>
    /\ GatewaySucceeds(requests[1].outcome)
    /\ ret.exc = ""
    /\ ret.val.plate_number = P_B1234ABC
    /\ ret.val.region_name = "Jawa Barat"

\* ------------------------------------------------------------------------
\* C10: constructing a client completes without error for every
\* configuration, and the session then carries the API-key header exactly
\* when a key was supplied.
\* ------------------------------------------------------------------------
KeySupplied(cfg) == cfg.rapidapi_key.t = "str" /\ cfg.rapidapi_key.s # <<>>

C10_ConstructionCompletes ==
    Done("__init__") =>
        /\ ret.exc = ""
        /\ ("X-RapidAPI-Key" \in client.session.headers) = KeySupplied(config)

\* ------------------------------------------------------------------------
\* C11: every failure of the gateway call is an APIError or one of its
\* subtypes: a timeout gives TimeoutError, a connection that cannot be
\* established gives NetworkError, any other transport failure, non-success
\* status, false success flag or malformed body gives APIError; a body with
\* a true success flag makes the call return the payload's data.
\* ------------------------------------------------------------------------
C11_GatewayErrors ==
    Done("_call_api") =>
        LET o == requests[1].outcome
        IN  /\ ret.exc \in {"", "APIError", "NetworkError", "TimeoutError"}
            /\ o.raises \in {"ReadTimeout", "ConnectTimeout"} => ret.exc = "TimeoutError"
            /\ o.raises = "ConnectionError" => ret.exc = "NetworkError"
            /\ o.raises \in {"HTTPError", "RetryError", "TooManyRedirects", "ValueError"}
                  => ret.exc = "APIError"
            /\ (o.raises = "" /\ o.body.t = "object" /\ GatewayFails(o)) => ret.exc = "APIError"
            /\ (o.raises = "" /\ o.body.t = "object" /\ ~GatewayFails(o))
                  => ret = Return(PayloadOf(o))

\* ------------------------------------------------------------------------
\* C12: check_plate validates before it contacts the gateway and contacts it
\* at most once: no request for an input that fails with InvalidPlateError,
\* exactly one, carrying the normalized plate, for a format-valid input;
\* bulk_check sends its requests in input order, at most one per item.
\* ------------------------------------------------------------------------
\* the normalized forms of the format-valid plates of a list, in order
RECURSIVE ValidNormalized(_)
ValidNormalized(plates) ==
    IF plates = <<>> THEN <<>>
    ELSE (IF FormatValid(plates[1]) THEN <<Collapse(plates[1])>> ELSE <<>>)
         \o ValidNormalized(Tail(plates))

\* the plates of the requests sent, in the order they were sent
Sent == [i \in 1..Len(requests) |-> requests[i].nopol]

C12_GatewayCalls ==
    /\ Done("check_plate") =>
          /\ ret.exc = "InvalidPlateError" => requests = <<>>
          /\ ~FormatValid(plate) => requests = <<>>
          /\ FormatValid(plate) => Sent = <<Collapse(plate)>>
    /\ Done("bulk_check") =>
          \E k \in 0..Len(plate_numbers) :
              /\ ret.exc = "" => k = Len(plate_numbers)
              /\ Sent = ValidNormalized(SubSeq(plate_numbers, 1, k))

\* bulk_check returned after one request per plate, in input order
C12_Witness ==
    /\ Done("bulk_check")
    /\ ret.exc = ""
    /\ plate_numbers = <<P_ab5cde, P_B_1234_ABC>>
    /\ Len(requests) = 2
    /\ requests[1].nopol = <<"A", "B", "5", "C", "D", "E">>
    /\ requests[2].nopol = P_B_1234_ABC

====
